---- MODULE Spec2Model ----
(***************************************************************************)
(* Model of the Skyhub image server (skyhub_server.go).                    *)
(*                                                                         *)
(* main() fetches a manifest of image URLs, downloads and decodes every    *)
(* image, connects to the database, then resizes every image to three      *)
(* sizes, writing each resized image to a file and upserting a             *)
(* (Name, Url) document for it, and finally serves the result over HTTP.   *)
(* The file system and the database collection outlive the process: the    *)
(* model lets the program be started again on what an earlier run left.    *)
(*                                                                         *)
(* Strings are sequences of one-character strings, so that the slicing of  *)
(* nameFromUrl and the concatenation of resizeAndStoreToDB are computed.   *)
(***************************************************************************)
EXTENDS Integers, Sequences, FiniteSets, TLC

VARIABLES
    pc,         \* where main() is: start, fetch, connect, resize, listening, fatal, panic
    imagesUrl,  \* main's imagesUrl: the manifest consumeEndpoint returned
    remote,     \* what the remote host answers for each manifest entry
    images,     \* getJpegImgs' images filled so far
    pos,        \* number of (image, size) pairs resizeAndStoreImgsToDB has completed
    files,      \* the files under filepathPrefix
    index,      \* the documents of the collection B2W/skyhub, in insertion order
    err,        \* the error the run died of, and the entry or pair it came from
    upserts,    \* the names upserted by this run, in order
    runs,       \* number of times the program was started
    files0,     \* files when this run started
    index0,     \* index when this run started
    last,       \* how the previous run ended and on which manifest
    repeat,     \* this run's manifest is the manifest of a previous run that succeeded
    listing,    \* the last answer of the handler Skyhub to GET /skyhub, if any
    nfUrl,      \* argument of a nameFromUrl call
    nfRes,      \* its result
    snIn,       \* two (logical name, size) pairs
    snOut       \* the documents resizeAndStoreToDB builds for them

pipeVars == <<pc, imagesUrl, remote, images, pos, files, index, err, upserts,
              runs, files0, index0, last, repeat, listing>>
nameVars == <<nfUrl, nfRes>>
storeVars == <<snIn, snOut>>
vars == <<pipeVars, nameVars, storeVars>>

----------------------------------------------------------------------------
(* Bounds *)

MaxManifest == 2

MaxRuns == 2

MaxUrlLen == 4

MaxNameLen == 2

----------------------------------------------------------------------------
(* Program constants *)

smallSize == [width |-> 320, height |-> 240]

mediumSize == [width |-> 384, height |-> 288]

largeSize == [width |-> 640, height |-> 480]

ServerAddr == "localhost:7366"

\* The loop body with its second call repeated in place of the third.
SizeOrderMediumTwice == <<smallSize, mediumSize, mediumSize>>

\* The loop body with its calls in the opposite order.
SizeOrderLargeFirst == <<largeSize, mediumSize, smallSize>>

\* The three calls of resizeAndStoreImgsToDB's loop body, in order.
SizeOrder == <<smallSize, mediumSize, largeSize>>

----------------------------------------------------------------------------
(* Strings *)

\* strings.LastIndex(s, c) for a one-character c: 0-based, -1 when absent.
LastIndex(s, c) ==
    IF \E i \in 1..Len(s) : s[i] = c
    THEN (CHOOSE i \in 1..Len(s) : s[i] = c /\ \A j \in (i+1)..Len(s) : s[j] # c) - 1
    ELSE -1

DigitChar(d) == <<"0", "1", "2", "3", "4", "5", "6", "7", "8", "9">>[d + 1]

RECURSIVE Itoa(_)
\* strconv.Itoa for a non-negative int.
Itoa(n) == IF n < 10 THEN <<DigitChar(n)>>
           ELSE Itoa(n \div 10) \o <<DigitChar(n % 10)>>

NoName == [kind |-> "none", name |-> <<>>]

\* nameFromUrl with leftIndex computed without the +1.
nameFromUrlNoPlusOne(imgurl) ==
    LET leftIndex == LastIndex(imgurl, "/")
        rightIndex == LastIndex(imgurl, ".")
    IN  IF leftIndex = -1 \/ rightIndex = -1
        THEN [kind |-> "err", name |-> <<>>]
        ELSE IF leftIndex > rightIndex
             THEN [kind |-> "panic", name |-> <<>>]
             ELSE [kind |-> "ok", name |-> SubSeq(imgurl, leftIndex + 1, rightIndex)]

\* nameFromUrl: (error, name).  imgurl[leftIndex:rightIndex] panics at run
\* time when leftIndex > rightIndex.
nameFromUrl(imgurl) ==
    LET leftIndex == LastIndex(imgurl, "/") + 1
        rightIndex == LastIndex(imgurl, ".")
    IN  IF leftIndex = -1 \/ rightIndex = -1
        THEN [kind |-> "err", name |-> <<>>]
        ELSE IF leftIndex > rightIndex
             THEN [kind |-> "panic", name |-> <<>>]
             ELSE [kind |-> "ok", name |-> SubSeq(imgurl, leftIndex + 1, rightIndex)]

\* The name resizeAndStoreToDB gives the resized image, without its dimensions.
StoredNameNoSize(name, size) == name \o <<".", "j", "p", "g">>

\* The name resizeAndStoreToDB gives the resized image.
StoredName(name, size) ==
    name \o <<"_">> \o Itoa(size.width) \o <<"x">> \o Itoa(size.height)
         \o <<".", "j", "p", "g">>

\* The document resizeAndStoreToDB upserts for a stored name.
MakeDoc(name) == [Name |-> name, Url |-> <<"http://", ServerAddr, "/skyhub/">> \o name]

----------------------------------------------------------------------------
(* Images, files, collection *)

\* resize.Resize(newsize.width, newsize.height, img, resize.Bilinear)
resizeImg(img, newsize) == [width |-> newsize.width, height |-> newsize.height]

\* saveImgToFile: os.Create truncates the file, jpeg.Encode then writes it.
\* outcome: "ok", "create" (os.Create fails), "encode" (jpeg.Encode fails).
saveImgToFile(fs, img, filepath, outcome) ==
    LET others == {f \in fs : f.name # filepath}
    IN  CASE outcome = "create" -> fs
          [] outcome = "encode" ->
                others \cup {[name |-> filepath, complete |-> FALSE, width |-> 0, height |-> 0]}
          [] OTHER ->
                others \cup {[name |-> filepath, complete |-> TRUE,
                              width |-> img.width, height |-> img.height]}

\* An Upsert that always inserts.
UpsertInsertOnly(coll, name, doc) == Append(coll, doc)

\* db.Upsert(nameId, doc): replaces the first document whose Name matches,
\* inserts doc when none does.
Upsert(coll, name, doc) ==
    IF \E i \in 1..Len(coll) : coll[i].Name = name
    THEN LET i == CHOOSE k \in 1..Len(coll) :
                      coll[k].Name = name /\ \A j \in 1..(k-1) : coll[j].Name # name
         IN  [coll EXCEPT ![i] = doc]
    ELSE Append(coll, doc)

----------------------------------------------------------------------------
(* The environment: what the manifest may hold and what the hosts answer *)

\* URLs a manifest may hold: two with the logical name "a" (in different
\* folders), one with "b", one whose only "." is in the host, one with no ".".
UrlPool ==
    { <<"h", "/", "a", ".", "j">>,
      <<"g", "/", "a", ".", "j">>,
      <<"h", "/", "b", ".", "j">>,
      <<"h", ".", "c", "/", "a">>,
      <<"h", "/", "a">> }

Manifests == UNION {[1..n -> UrlPool] : n \in 0..MaxManifest}

\* Per manifest entry: the download and the decoding succeed, http.Get
\* fails, or jpeg.Decode fails.
FetchOutcomes == {"ok", "transport", "decode"}

\* The image jpeg.Decode returns for a URL.
SourceImage(imgurl) ==
    IF imgurl[1] = "h" THEN [width |-> 800, height |-> 600]
                       ELSE [width |-> 320, height |-> 240]

\* The answers to the requests of one run.  getJpegImgs returns at the first
\* failing entry, so a run observes at most one failing answer: the answers
\* are drawn with at most one failure.
FetchAnswers(n) ==
    {r \in [1..n -> FetchOutcomes] : Cardinality({i \in 1..n : r[i] # "ok"}) <= 1}

NoErr == [stage |-> "none", at |-> 0]

NoLast == [ok |-> FALSE, manifest |-> <<>>]

NoListing == [served |-> FALSE, docs |-> <<>>]

----------------------------------------------------------------------------
(* The pipeline: main() *)

PipeInit ==
    /\ pc = "start"
    /\ imagesUrl = <<>>
    /\ remote = <<>>
    /\ images = <<>>
    /\ pos = 0
    /\ files = {}
    /\ index = <<>>
    /\ err = NoErr
    /\ upserts = <<>>
    /\ runs = 1
    /\ files0 = {}
    /\ index0 = <<>>
    /\ last = NoLast
    /\ repeat = FALSE
    /\ listing = NoListing

NameIdle == nfUrl = <<>> /\ nfRes = NoName

StoreIdle == snIn = <<>> /\ snOut = <<>>

Init == PipeInit /\ NameIdle /\ StoreIdle

\* log.Fatal(err): the process exits.
Fatal(stage, at) ==
    /\ pc' = "fatal"
    /\ err' = [stage |-> stage, at |-> at]

\* What main does when consumeEndpoint returns an error, were it ignored.
ManifestFailedIgnored(stage) ==
    /\ pc' = "fetch"
    /\ err' = [stage |-> stage, at |-> 0]
    /\ UNCHANGED <<imagesUrl, remote, images, pos, files, index, upserts>>

\* main, lines 223-226: consumeEndpoint failed.
ManifestFailed(stage) ==
    /\ Fatal(stage, 0)
    /\ UNCHANGED <<imagesUrl, remote, images, pos, files, index, upserts>>

\* consumeEndpoint and main's check of its result.
ConsumeEndpoint ==
    /\ pc = "start"
    /\ \/ ManifestFailed("manifest-get")
       \/ ManifestFailed("manifest-read")
       \/ ManifestFailed("manifest-json")
       \/ \E m \in Manifests : \E r \in FetchAnswers(Len(m)) :
            /\ imagesUrl' = m
            /\ remote' = r
            /\ pc' = "fetch"
            /\ UNCHANGED <<images, pos, files, index, err, upserts>>
    /\ repeat' = (pc' = "fetch" /\ last.ok /\ last.manifest = imagesUrl')
    /\ last' = NoLast
    /\ UNCHANGED <<runs, files0, index0, listing>>

\* One iteration of getJpegImgs' loop; any error is returned to main, which
\* calls log.Fatal.
GetJpegImg ==
    /\ pc = "fetch"
    /\ Len(images) < Len(imagesUrl)
    /\ LET i == Len(images) + 1
           imgurl == imagesUrl[i]
           n == nameFromUrl(imgurl)
       IN  \/ /\ remote[i] = "transport"
              /\ Fatal("get", i)
              /\ UNCHANGED images
           \/ /\ remote[i] = "decode"
              /\ Fatal("decode", i)
              /\ UNCHANGED images
           \/ /\ remote[i] = "ok"
              /\ n.kind = "err"
              /\ Fatal("name", i)
              /\ UNCHANGED images
           \/ /\ remote[i] = "ok"
              /\ n.kind = "panic"
              /\ pc' = "panic"
              /\ err' = [stage |-> "panic", at |-> i]
              /\ UNCHANGED images
           \/ /\ remote[i] = "ok"
              /\ n.kind = "ok"
              /\ images' = Append(images, [img |-> SourceImage(imgurl), name |-> n.name])
              /\ UNCHANGED <<pc, err>>
    /\ UNCHANGED <<imagesUrl, remote, pos, files, index, upserts,
                   runs, files0, index0, last, repeat, listing>>

\* getJpegImgs returning what it has before its loop is over.
GetJpegImgsReturnEarly ==
    /\ pc = "fetch"
    /\ pc' = "connect"
    /\ UNCHANGED <<imagesUrl, remote, images, pos, files, index, err, upserts,
                   runs, files0, index0, last, repeat, listing>>

\* getJpegImgs returns images, nil; main goes on to connectToDatabase.
GetJpegImgsReturn ==
    /\ pc = "fetch"
    /\ Len(images) = Len(imagesUrl)
    /\ pc' = "connect"
    /\ UNCHANGED <<imagesUrl, remote, images, pos, files, index, err, upserts,
                   runs, files0, index0, last, repeat, listing>>

\* connectToDatabase and main's check of its result.
ConnectToDatabase ==
    /\ pc = "connect"
    /\ \/ /\ Fatal("connect", 0)
       \/ /\ pc' = IF Len(images) = 0 THEN "listening" ELSE "resize"
          /\ UNCHANGED err
    /\ UNCHANGED <<imagesUrl, remote, images, pos, files, index, upserts,
                   runs, files0, index0, last, repeat, listing>>

\* The error of a pair, were it dropped and the loop continued.
PairFailedSkipped(stage) ==
    /\ err' = [stage |-> stage, at |-> pos + 1]
    /\ pos' = pos + 1
    /\ pc' = IF pos + 1 = 3 * Len(images) THEN "listening" ELSE "resize"
    /\ UNCHANGED <<index, upserts>>

\* resizeAndStoreToDB returns an error before its upsert took place:
\* resizeAndStoreImgsToDB returns it at once and main calls log.Fatal.
PairFailed(stage) ==
    /\ Fatal(stage, pos + 1)
    /\ UNCHANGED <<index, upserts, pos>>

\* One call of resizeAndStoreToDB from resizeAndStoreImgsToDB's loop; an
\* error is returned up to main, which calls log.Fatal.
ResizeAndStoreToDB ==
    /\ pc = "resize"
    /\ pos < 3 * Len(images)
    /\ LET imgInfo == images[(pos \div 3) + 1]
           size == SizeOrder[(pos % 3) + 1]
           img == resizeImg(imgInfo.img, size)
           name == StoredName(imgInfo.name, size)
           doc == MakeDoc(name)
       IN  \/ \E outcome \in {"create", "encode"} :
                /\ files' = saveImgToFile(files, img, name, outcome)
                /\ PairFailed("store")
           \/ /\ files' = saveImgToFile(files, img, name, "ok")
              /\ PairFailed("upsert")
           \/ /\ files' = saveImgToFile(files, img, name, "ok")
              /\ index' = Upsert(index, doc.Name, doc)
              /\ upserts' = Append(upserts, name)
              /\ pos' = pos + 1
              /\ pc' = IF pos + 1 = 3 * Len(images) THEN "listening" ELSE "resize"
              /\ UNCHANGED err
    /\ UNCHANGED <<imagesUrl, remote, images, runs, files0, index0, last, repeat, listing>>

\* http.ListenAndServe returns an error (the address cannot be bound, the
\* listener fails) and main calls log.Fatal with it.
ListenAndServeFailed ==
    /\ pc = "listening"
    /\ Fatal("listen", 0)
    /\ UNCHANGED <<imagesUrl, remote, images, pos, files, index, upserts,
                   runs, files0, index0, last, repeat, listing>>

\* The handler Skyhub answers GET /skyhub: it connects to the database, and
\* calls log.Fatal when that fails; else it writes every document of the
\* collection.
Skyhub ==
    /\ pc = "listening"
    /\ \/ /\ Fatal("serve-connect", 0)
          /\ UNCHANGED listing
       \/ /\ listing' = [served |-> TRUE, docs |-> index]
          /\ UNCHANGED <<pc, err>>
    /\ UNCHANGED <<imagesUrl, remote, images, pos, files, index, upserts,
                   runs, files0, index0, last, repeat>>

\* The program is started again; the files and the collection are what the
\* earlier runs left.
Restart ==
    /\ pc \in {"listening", "fatal", "panic"}
    /\ runs < MaxRuns
    /\ runs' = runs + 1
    /\ pc' = "start"
    /\ last' = IF pc = "listening" THEN [ok |-> TRUE, manifest |-> imagesUrl] ELSE NoLast
    /\ imagesUrl' = <<>>
    /\ remote' = <<>>
    /\ images' = <<>>
    /\ pos' = 0
    /\ err' = NoErr
    /\ upserts' = <<>>
    /\ repeat' = FALSE
    /\ listing' = NoListing
    /\ files0' = files
    /\ index0' = index
    /\ UNCHANGED <<files, index>>

Next ==
    \/ (ConsumeEndpoint /\ UNCHANGED <<nameVars, storeVars>>)
    \/ (GetJpegImg /\ UNCHANGED <<nameVars, storeVars>>)
    \/ (GetJpegImgsReturn /\ UNCHANGED <<nameVars, storeVars>>)
    \/ (ConnectToDatabase /\ UNCHANGED <<nameVars, storeVars>>)
    \/ (ResizeAndStoreToDB /\ UNCHANGED <<nameVars, storeVars>>)
    \/ (ListenAndServeFailed /\ UNCHANGED <<nameVars, storeVars>>)
    \/ (Skyhub /\ UNCHANGED <<nameVars, storeVars>>)
    \/ (Restart /\ UNCHANGED <<nameVars, storeVars>>)

Spec == Init /\ [][Next]_vars

----------------------------------------------------------------------------
(* nameFromUrl on its own: every string over a small alphabet *)

UrlAlphabet == {"/", ".", "a", "b"}

UrlStrings == UNION {[1..n -> UrlAlphabet] : n \in 0..MaxUrlLen}

InitName ==
    /\ PipeInit
    /\ StoreIdle
    /\ nfUrl \in UrlStrings
    /\ nfRes = NoName

CallNameFromUrl ==
    /\ nfRes.kind = "none"
    /\ nfRes' = nameFromUrl(nfUrl)
    /\ UNCHANGED nfUrl

NextName == CallNameFromUrl /\ UNCHANGED <<pipeVars, storeVars>>

SpecName == InitName /\ [][NextName]_vars

----------------------------------------------------------------------------
(* The name and the document resizeAndStoreToDB builds, on their own *)

NameAlphabet == {"a", "_", "2", "x"}

\* Short logical names, and the one of the comment of nameFromUrl.
LogicalNames ==
    UNION {[1..n -> NameAlphabet] : n \in 0..MaxNameLen}
        \cup {<<"b", "7", "3", "7", "_", "3">>}

Sizes == {smallSize, mediumSize, largeSize}

StoreInputs == [name : LogicalNames, size : Sizes]

InitStore ==
    /\ PipeInit
    /\ NameIdle
    /\ snIn \in StoreInputs \X StoreInputs
    /\ snOut = <<>>

\* Lines 185 and 191 of resizeAndStoreToDB for one (imgInfo.name, size).
DocFor(in) == MakeDoc(StoredName(in.name, in.size))

CallMakeDocs ==
    /\ snOut = <<>>
    /\ snOut' = <<DocFor(snIn[1]), DocFor(snIn[2])>>
    /\ UNCHANGED snIn

NextStore == CallMakeDocs /\ UNCHANGED <<pipeVars, nameVars>>

SpecStore == InitStore /\ [][NextStore]_vars

----------------------------------------------------------------------------
(* Serving and the test's reading of a name *)

\* main, line 250: the file GET <url> streams, url being a document's Url
\* ("http://" + ServerAddr + "/skyhub/" + name).  The empty set when no such
\* file exists.
FileAt(url) == {f \in files : f.name = SubSeq(url, 4, Len(url))}

IsDigit(c) == c \in {DigitChar(d) : d \in 0..9}

RECURSIVE DigitsValue(_)
DigitsValue(s) ==
    IF s = <<>> THEN 0
    ELSE 10 * DigitsValue(SubSeq(s, 1, Len(s) - 1))
            + (CHOOSE d \in 0..9 : DigitChar(d) = s[Len(s)])

\* strconv.ParseUint(s, 10, 32): -1 stands for its error.
ParseUint(s) ==
    IF s = <<>> \/ \E i \in 1..Len(s) : ~IsDigit(s[i]) THEN -1 ELSE DigitsValue(s)

\* getImageSizeFromName of the test file.
getImageSizeFromName(name) ==
    LET leftIndex == LastIndex(name, "_")
        midIndex == LastIndex(name, "x")
        rightIndex == LastIndex(name, ".")
    IN  IF leftIndex = -1 \/ midIndex = -1 \/ rightIndex = -1
        THEN [kind |-> "err", width |-> 0, height |-> 0]
        ELSE IF leftIndex + 1 > midIndex \/ midIndex + 1 > rightIndex
             THEN [kind |-> "panic", width |-> 0, height |-> 0]
             ELSE LET width == ParseUint(SubSeq(name, leftIndex + 2, midIndex))
                      height == ParseUint(SubSeq(name, midIndex + 2, rightIndex))
                  IN  IF width = -1 \/ height = -1
                      THEN [kind |-> "err", width |-> 0, height |-> 0]
                      ELSE [kind |-> "ok", width |-> width, height |-> height]

----------------------------------------------------------------------------
(* Vocabulary of the claims *)

RunEnded == pc \in {"listening", "fatal", "panic"}

Names(coll) == {coll[i].Name : i \in 1..Len(coll)}

NoDuplicateName(coll) ==
    \A i, j \in 1..Len(coll) : coll[i].Name = coll[j].Name => i = j

\* Entry i of the manifest fails to download, to decode or to yield a name.
BadEntry(i) == remote[i] # "ok" \/ nameFromUrl(imagesUrl[i]).kind # "ok"

\* The logical name the URL of entry i ends with.
EntryName(i) == nameFromUrl(imagesUrl[i]).name

\* The stored name of the p-th (image, size) pair of this run, 1 <= p <= 3 * Len(images).
PairName(p) == StoredName(images[((p - 1) \div 3) + 1].name, SizeOrder[((p - 1) % 3) + 1])

HasSlash(url) == \E i \in 1..Len(url) : url[i] = "/"

DotAfterLastSlash(url) ==
    \E i \in 1..Len(url) : url[i] = "." /\ \A j \in (i+1)..Len(url) : url[j] # "/"

\* "_<width>x<height>.jpg" written out for the three sizes.
SizeSuffix(size) ==
    CASE size = [width |-> 320, height |-> 240] ->
            <<"_", "3", "2", "0", "x", "2", "4", "0", ".", "j", "p", "g">>
      [] size = [width |-> 384, height |-> 288] ->
            <<"_", "3", "8", "4", "x", "2", "8", "8", ".", "j", "p", "g">>
      [] size = [width |-> 640, height |-> 480] ->
            <<"_", "6", "4", "0", "x", "4", "8", "0", ".", "j", "p", "g">>

----------------------------------------------------------------------------
(* The claims *)

\* C1: in every reachable state, every document of the index has an address
\* that resolves to a completely written file.
C1_IndexedFilesWritten ==
    \A i \in 1..Len(index) : \E f \in FileAt(index[i].Url) : f.complete

\* C2: a fully successful run on the manifest of the fully successful run
\* before it leaves the index with the same names, each with the same
\* address, and with no name twice: the index does not grow.
C2_Idempotent ==
    (pc = "listening" /\ repeat) =>
        /\ Names(index) = Names(index0)
        /\ \A i \in 1..Len(index) : \A j \in 1..Len(index0) :
               index[i].Name = index0[j].Name => index[i].Url = index0[j].Url
        /\ Len(index) = Len(index0)
        /\ NoDuplicateName(index)

\* A second successful run on the same two-entry manifest has ended.
C2_Witness ==
    /\ pc = "listening"
    /\ repeat
    /\ Len(imagesUrl) = 2
    /\ Len(index) = 6

\* C3 as claimed: from an empty index, a fully successful run over N valid
\* entries leaves exactly 3N documents.
C3_ThreePerEntry ==
    (pc = "listening" /\ index0 = <<>>) => Len(index) = 3 * Len(imagesUrl)

\* C3 amended: from an empty index, a fully successful run leaves exactly
\* three documents per distinct logical name of the manifest, hence 3N when
\* the N logical names are pairwise distinct.
C3_ThreePerName ==
    (pc = "listening" /\ index0 = <<>>) =>
        /\ Len(index) = 3 * Cardinality({EntryName(i) : i \in 1..Len(imagesUrl)})
        /\ NoDuplicateName(index)

\* A successful first run over two different URLs with one logical name.
C3_Witness ==
    /\ pc = "listening"
    /\ index0 = <<>>
    /\ Len(imagesUrl) = 2
    /\ imagesUrl[1] # imagesUrl[2]
    /\ EntryName(1) = EntryName(2)
    /\ Len(index) = 3

\* C4: when exactly one entry of the manifest fails (download, decoding or
\* name) and nothing else does, the run that started on an empty index ends
\* with three documents for each of the other N-1 entries.
C4_OtherEntriesProcessed ==
    ( /\ RunEnded
      /\ index0 = <<>>
      /\ err.stage \in {"none", "get", "decode", "name", "panic"}
      /\ Cardinality({i \in 1..Len(imagesUrl) : BadEntry(i)}) = 1
      /\ \A i, j \in 1..Len(imagesUrl) :
            (~BadEntry(i) /\ ~BadEntry(j) /\ i # j) => EntryName(i) # EntryName(j) )
    => Len(index) = 3 * (Len(imagesUrl) - 1)

\* C5: when the store or the upsert of one (image, size) pair fails, every
\* other pair of the run is still stored and upserted.
C5_OtherPairsProcessed ==
    (pc = "fatal" /\ err.stage \in {"store", "upsert"}) =>
        \A p \in 1..(3 * Len(images)) :
            PairName(p) # PairName(err.at) =>
                \E k \in 1..Len(upserts) : upserts[k] = PairName(p)

\* C6: a run whose manifest fetch failed is dead, has downloaded no image,
\* written no file and upserted nothing: files and index are as they were
\* when it started, and it never listens.
C6_ManifestFailureAborts ==
    (err.stage \in {"manifest-get", "manifest-read", "manifest-json"}) =>
        /\ pc = "fatal"
        /\ imagesUrl = <<>>
        /\ images = <<>>
        /\ pos = 0
        /\ upserts = <<>>
        /\ files = files0
        /\ index = index0

\* A run on six indexed documents died of an invalid manifest.
C6_Witness ==
    /\ err.stage = "manifest-json"
    /\ pc = "fatal"
    /\ Len(index0) = 6
    /\ index = index0

\* C7: for a URL with no "/" or with no "." after its last "/", nameFromUrl
\* returns an error.
C7_MissingSeparatorFails ==
    (nfRes.kind # "none" /\ (~HasSlash(nfUrl) \/ ~DotAfterLastSlash(nfUrl))) =>
        nfRes.kind = "err"

\* C8: for a URL with a "/" and a "." after its last "/", nameFromUrl
\* succeeds with what lies strictly between the last "/" and the last ".".
C8_NameBetweenSeparators ==
    (nfRes.kind # "none" /\ HasSlash(nfUrl) /\ DotAfterLastSlash(nfUrl)) =>
        \E i, j \in 1..Len(nfUrl) :
            /\ i < j
            /\ nfUrl[i] = "/" /\ \A k \in (i+1)..Len(nfUrl) : nfUrl[k] # "/"
            /\ nfUrl[j] = "." /\ \A k \in (j+1)..Len(nfUrl) : nfUrl[k] # "."
            /\ nfRes = [kind |-> "ok", name |-> SubSeq(nfUrl, i + 1, j - 1)]

\* A URL starting with "." whose last segment has a one-character stem.
C8_Witness ==
    /\ nfRes.kind = "ok"
    /\ HasSlash(nfUrl) /\ DotAfterLastSlash(nfUrl)
    /\ nfUrl[1] = "."
    /\ Len(nfRes.name) = 1

\* C9: the document built for (L, (w, h)) has Name = L + "_" + w + "x" + h +
\* ".jpg" and Url = "http://" + ServerAddr + "/skyhub/" + Name, and two
\* different (L, size) pairs never get the same Name.
C9_StoredNameUnique ==
    (snOut # <<>>) =>
        /\ \A k \in 1..2 :
              /\ snOut[k].Name = snIn[k].name \o SizeSuffix(snIn[k].size)
              /\ snOut[k].Url = <<"http://", "localhost:7366", "/skyhub/">> \o snOut[k].Name
        /\ (snIn[1] # snIn[2] => snOut[1].Name # snOut[2].Name)

\* The documents of ("b737_3", 320x240) and of a name ending in "_".
C9_Witness ==
    /\ snOut # <<>>
    /\ snIn[1].name = <<"b", "7", "3", "7", "_", "3">>
    /\ snIn[1].size = smallSize
    /\ snIn[2].name = <<"a", "_">>
    /\ snOut[1].Name = <<"b", "7", "3", "7", "_", "3", "_", "3", "2", "0", "x",
                         "2", "4", "0", ".", "j", "p", "g">>

\* C10: for every document of the index, the image stored at its address has
\* the width and height written in its name, those of one of the three sizes.
C10_DimensionFidelity ==
    \A i \in 1..Len(index) :
        LET size == getImageSizeFromName(index[i].Name)
        IN  /\ size.kind = "ok"
            /\ [width |-> size.width, height |-> size.height] \in Sizes
            /\ \E f \in FileAt(index[i].Url) :
                  f.width = size.width /\ f.height = size.height

\* The stored name of the p-th pair in manifest order and, within an image,
\* in the order small, medium, large.
OrderedPairName(p) ==
    StoredName(images[((p - 1) \div 3) + 1].name,
               <<[width |-> 320, height |-> 240],
                 [width |-> 384, height |-> 288],
                 [width |-> 640, height |-> 480]>>[((p - 1) % 3) + 1])

\* C11: while the listener serves, no (image, size) pair of the run has
\* failed its store or its upsert: the listing of GET /skyhub is the index,
\* and every pair of the run is in the index with a completely written file
\* under /skyhub/<name>.
C11_NoFailedPairServed ==
    (pc = "listening") =>
        /\ err.stage \notin {"store", "upsert"}
        /\ \A p \in 1..(3 * Len(images)) :
              /\ PairName(p) \in Names(index)
              /\ \E f \in FileAt(MakeDoc(PairName(p)).Url) : f.complete
        /\ listing.served => listing.docs = index

\* The listing is served by a run that succeeded after an earlier run had
\* left a truncated file behind.
C11_Witness ==
    /\ pc = "listening"
    /\ listing.served
    /\ Len(listing.docs) = 6
    /\ \E f \in files0 : ~f.complete

\* C12: the process dies only of a failed manifest fetch or of a failed
\* connection to the index at startup; in every other case it is listening.
C12_FatalOnlyAtStartup ==
    (pc \in {"fatal", "panic"}) =>
        err.stage \in {"manifest-get", "manifest-read", "manifest-json", "connect"}

\* C13: when a run halts on the failing pair number err.at, the upserts of
\* the run are exactly those of the pairs before it, in manifest order and
\* small, medium, large within an image, and the index holds what it held
\* when the run started and these.
C13_HaltedRunPrefix ==
    (pc = "fatal" /\ err.stage \in {"store", "upsert"}) =>
        /\ err.at = pos + 1
        /\ Len(upserts) = err.at - 1
        /\ \A p \in 1..Len(upserts) : upserts[p] = OrderedPairName(p)
        /\ Names(index) = Names(index0) \cup {OrderedPairName(p) : p \in 1..(err.at - 1)}

\* The upsert of the medium size of the second image failed.
C13_Witness ==
    /\ pc = "fatal"
    /\ err = [stage |-> "upsert", at |-> 5]
    /\ Len(upserts) = 4
    /\ images[1].name # images[2].name

\* C14: a file write or an upsert happens only after every entry of the
\* manifest was downloaded, decoded and named and after the database was
\* connected; a run with an entry that fails leaves files and index as they
\* were.
C14_FetchBeforeWrites ==
    /\ (files # files0 \/ index # index0 \/ upserts # <<>>) =>
          /\ Len(images) = Len(imagesUrl)
          /\ \A i \in 1..Len(imagesUrl) : ~BadEntry(i)
          /\ pc \notin {"start", "fetch", "connect"}
          /\ err.stage \notin {"get", "decode", "name", "panic", "connect"}
    /\ \/ /\ files = files0
          /\ index = index0
          /\ upserts = <<>>
          /\ pc \notin {"connect", "resize", "listening"}
       \/ ~(\E i \in 1..Len(imagesUrl) : BadEntry(i))

\* The second entry of a run on stored files fails to decode after the first
\* was downloaded.
C14_Witness ==
    /\ pc = "fatal"
    /\ err = [stage |-> "decode", at |-> 2]
    /\ Len(images) = 1
    /\ files0 # {}
    /\ files = files0
    /\ index = index0

====
